---- MODULE Spec2Model ----
(***************************************************************************)
(* Model of the order-history and cohort pipeline of src/code/functions.py *)
(* (process_orders_pandas, matriz_migracao, resumo_coorte_ativa).          *)
(*                                                                         *)
(* A table (DataFrame) is a sequence of rows, a row is a record of its     *)
(* columns.  A nullable cell is <<>> (null / NaT / NaN) or <<v>>.          *)
(* Timestamps are counted in ticks of half a second since                  *)
(* 2018-01-01 00:00:00, so that second precision (strftime) and whole days *)
(* (.dt.days) are real truncations.  Customer ids are numbered, their      *)
(* order standing for the order of the id strings.  is_target and active   *)
(* are the two-valued flags 0/1.                                           *)
(***************************************************************************)
EXTENDS Integers, Sequences, FiniteSets

VARIABLES table, df_final, df_percent, processed, last_call

(* execute_orders_etl of src/code/data_output/fun.py: its arguments, the   *)
(* lines behind the url, and the locals of one call                        *)
VARIABLES text_stream, customer_ids, columns_to_drop, max_sample,
          etl_pc, lines_read, filtered_records, raised_in_etl, df_result

core_vars == <<table, df_final, df_percent, processed, last_call>>

etl_vars == <<text_stream, customer_ids, columns_to_drop, max_sample,
              etl_pc, lines_read, filtered_records, raised_in_etl, df_result>>

vars == <<core_vars, etl_vars>>

----------------------------------------------------------------------------
(* Bounds and sample values of the input space *)

MaxRows == 3
NumCustomers == 2

Customers == 1..NumCustomers

TicksPerSecond == 2
SecondsPerDay == 86400
TicksPerDay == TicksPerSecond * SecondsPerDay
EpochShiftDays == 17532

(* 2018-12-30 10:00:00.0, 2019-01-05 08:00:00.5, 2019-02-03 12:00:00.0 *)
December == 62798400
January  == 63820801
February == 68860800
Times == {December, January, February}
Amounts == {10, 20, 30}
Flags == {0, 1}

(* the months the calls are made with: the year's wrap-around (12 -> 1),  *)
(* a month followed by one with events, by one without, and a month       *)
(* without events                                                         *)
StartMonths == {1, 2, 11, 12}
MigrationMonths == {1, 2}

----------------------------------------------------------------------------
(* Generic helpers *)

RECURSIVE SumOver(_, _)
SumOver(S, f) ==
  IF S = {} THEN 0
  ELSE LET x == CHOOSE y \in S : TRUE IN f[x] + SumOver(S \ {x}, f)

RECURSIVE GCD(_, _)
GCD(a, b) == IF b = 0 THEN a ELSE GCD(b, a % b)

Indices(df) == 1..Len(df)

(* lexicographic strict order on tuples of integers of equal length *)
RECURSIVE LexLess(_, _)
LexLess(a, b) ==
  IF a = <<>> THEN FALSE
  ELSE IF Head(a) # Head(b) THEN Head(a) < Head(b)
  ELSE LexLess(Tail(a), Tail(b))

(* the keys of a groupby result come out sorted *)
RECURSIVE SortedKeys(_)
SortedKeys(S) ==
  IF S = {} THEN <<>>
  ELSE LET m == CHOOSE x \in S : \A y \in S \ {x} : LexLess(x, y)
       IN <<m>> \o SortedKeys(S \ {m})

(* variant: both columns ascending whatever the direction asked for *)
by_customer_time_ascending(r, asc) == <<r.customer_id, r.order_created_at>>

(* DataFrame.sort_values(by=['customer_id','order_created_at'],           *)
(* ascending=[asc, True]): a stable sort on the two columns (lexsort), a  *)
(* descending column compared on its negation.                            *)
by_customer_time(r, asc) ==
  <<IF asc THEN r.customer_id ELSE 0 - r.customer_id, r.order_created_at>>

RECURSIVE InsertStable(_, _, _)
InsertStable(r, s, asc) ==
  IF s = <<>> THEN <<r>>
  ELSE IF LexLess(by_customer_time(r, asc), by_customer_time(Head(s), asc))
       THEN <<r>> \o s
       ELSE <<Head(s)>> \o InsertStable(r, Tail(s), asc)

RECURSIVE sort_values(_, _)
sort_values(df, asc) ==
  IF df = <<>> THEN <<>>
  ELSE InsertStable(df[Len(df)], sort_values(SubSeq(df, 1, Len(df) - 1), asc), asc)

----------------------------------------------------------------------------
(* Column functions *)

(* Series.dt.month: calendar month of the timestamp's day (proleptic      *)
(* Gregorian calendar, days counted from 1970-01-01).                     *)
dt_month(ts) ==
  LET z   == (ts \div TicksPerDay) + EpochShiftDays + 719468
      era == z \div 146097
      doe == z - era * 146097
      yoe == (doe - doe \div 1460 + doe \div 36524 - doe \div 146096) \div 365
      doy == doe - (365 * yoe + yoe \div 4 - yoe \div 100)
      mp  == (5 * doy + 2) \div 153
  IN IF mp < 10 THEN mp + 3 ELSE mp - 9

(* strftime('%Y-%m-%d %H:%M:%S'): the timestamp cut to whole seconds      *)
strftime(ts) == ts \div TicksPerSecond

(* customer_id.astype(str) + "||" + formatted timestamp *)
unique_order_hash(r) == <<r.customer_id, strftime(r.order_created_at)>>

(* Timedelta .dt.days: whole days of the difference, null for null        *)
dt_days(t, prev) ==
  IF prev = <<>> THEN <<>> ELSE <<(t - prev[1]) \div TicksPerDay>>

----------------------------------------------------------------------------
(* process_orders_pandas *)

(* variant: no copy, the local name stays bound to the caller's object *)
df_alias(df) == [aliased |-> TRUE, rows |-> df]

(* df = df.copy(): the local name is bound to a new object, so the column *)
(* assignments that follow do not reach the caller's table.               *)
df_copy(df) == [aliased |-> FALSE, rows |-> df]

(* order_created_at normalised, order_created_month attached *)
with_month(df) ==
  [i \in Indices(df) |->
     [customer_id        |-> df[i].customer_id,
      order_created_at   |-> df[i].order_created_at,
      order_total_amount |-> df[i].order_total_amount,
      is_target          |-> df[i].is_target,
      active             |-> df[i].active,
      order_created_month |-> dt_month(df[i].order_created_at)]]

(* groupby(cols): the positions of the rows sharing row i's key *)
group_cols(r) == <<r.customer_id, r.is_target, r.order_created_month>>
hist_cols(r)  == <<r.customer_id, r.is_target>>
GroupMes(df, i)  == {j \in Indices(df) : group_cols(df[j]) = group_cols(df[i])}

(* variant: the lifetime group keyed by customer_id alone *)
GroupHist_by_customer(df, i) == {j \in Indices(df) : df[j].customer_id = df[i].customer_id}

GroupHist(df, i) == {j \in Indices(df) : hist_cols(df[j]) = hist_cols(df[i])}

(* variant: the distinct hashes of the group (nunique) *)
transform_nunique(df, G) == Cardinality({unique_order_hash(df[j]) : j \in G})

(* transform('count') on unique_order_hash: the non-null cells of the group *)
transform_count(df, G) == Cardinality({j \in G : unique_order_hash(df[j]) # <<>>})

(* transform('sum') on order_total_amount *)
transform_sum(df, G) == SumOver(G, [j \in G |-> df[j].order_total_amount])

(* transform('mean') on order_total_amount, as a fraction in lowest terms *)
transform_mean(df, G) ==
  LET s == transform_sum(df, G)
      n == Cardinality(G)
      g == GCD(s, n)
  IN <<s \div g, n \div g>>

(* the distribution table: groupby(month, is_target, active).size(), then *)
(* total_month over the month and percentual rounded to 2 decimals        *)
dist_cols(r) == <<r.order_created_month, r.is_target, r.active>>

(* round(2) of count / total * 100, in hundredths, ties to even *)
percentual(count, total) ==
  LET q   == (count * 10000) \div total
      rem == (count * 10000) % total
  IN IF 2 * rem < total THEN q
     ELSE IF 2 * rem > total THEN q + 1
     ELSE IF q % 2 = 0 THEN q ELSE q + 1

(* variant: the sum of count over the whole table, not per month *)
total_all_months(df_counts, n) ==
  SumOver(Indices(df_counts), [k \in Indices(df_counts) |-> df_counts[k].count])

(* groupby("order_created_month")["count"].transform('sum') for row n *)
total_month(df_counts, n) ==
  SumOver({k \in Indices(df_counts) :
             df_counts[k].order_created_month = df_counts[n].order_created_month},
          [k \in Indices(df_counts) |-> df_counts[k].count])

distribution(df) ==
  LET keys == SortedKeys({dist_cols(df[i]) : i \in Indices(df)})
      df_counts == [n \in 1..Len(keys) |->
                      [order_created_month |-> keys[n][1],
                       is_target |-> keys[n][2],
                       active    |-> keys[n][3],
                       count     |-> Cardinality({i \in Indices(df) : dist_cols(df[i]) = keys[n]})]]
  IN [n \in 1..Len(keys) |->
        [order_created_month |-> df_counts[n].order_created_month,
         is_target   |-> df_counts[n].is_target,
         active      |-> df_counts[n].active,
         count       |-> df_counts[n].count,
         total_month |-> total_month(df_counts, n),
         percentual  |-> percentual(df_counts[n].count, total_month(df_counts, n))]]

(* the per-customer-per-month and lifetime metrics attached to every row *)
with_metrics(df) ==
  [i \in Indices(df) |->
     [customer_id        |-> df[i].customer_id,
      order_created_at   |-> df[i].order_created_at,
      order_total_amount |-> df[i].order_total_amount,
      is_target          |-> df[i].is_target,
      active             |-> df[i].active,
      order_created_month |-> df[i].order_created_month,
      unique_order_hash  |-> unique_order_hash(df[i]),
      total_amount_mes   |-> transform_sum(df, GroupMes(df, i)),
      ticket_medio       |-> transform_mean(df, GroupMes(df, i)),
      num_pedidos_mes    |-> transform_count(df, GroupMes(df, i)),
      num_pedidos_hist   |-> transform_count(df, GroupHist(df, i))]]

(* variant: shift(1) over the whole sorted table, without the partition *)
shift_global(df, i) == IF i = 1 THEN <<>> ELSE <<df[i - 1].order_created_at>>

(* groupby("customer_id")['order_created_at'].shift(1): the timestamp of  *)
(* the nearest earlier row of the same customer, null when there is none  *)
shift_by_customer(df, i) ==
  LET before == {j \in 1..(i - 1) : df[j].customer_id = df[i].customer_id}
  IN IF before = {} THEN <<>>
     ELSE <<df[CHOOSE j \in before : \A k \in before : k <= j].order_created_at>>

with_prev(df) ==
  [i \in Indices(df) |->
     [customer_id        |-> df[i].customer_id,
      order_created_at   |-> df[i].order_created_at,
      order_total_amount |-> df[i].order_total_amount,
      is_target          |-> df[i].is_target,
      active             |-> df[i].active,
      order_created_month |-> df[i].order_created_month,
      unique_order_hash  |-> df[i].unique_order_hash,
      total_amount_mes   |-> df[i].total_amount_mes,
      ticket_medio       |-> df[i].ticket_medio,
      num_pedidos_mes    |-> df[i].num_pedidos_mes,
      num_pedidos_hist   |-> df[i].num_pedidos_hist,
      prev_order_time    |-> shift_by_customer(df, i),
      diff_days          |-> dt_days(df[i].order_created_at, shift_by_customer(df, i))]]

process_orders_pandas(df) ==
  LET local   == df_copy(df)
      dated   == with_month(local.rows)
      metrics == with_metrics(dated)
      sorted  == sort_values(metrics, TRUE)
      lagged  == with_prev(sorted)
  IN [df_final   |-> sort_values(lagged, FALSE),
      df_percent |-> distribution(dated),
      caller_df  |-> IF local.aliased THEN dated ELSE df]

----------------------------------------------------------------------------
(* matriz_migracao *)

(* An operation either returns a table or raises; raised names the error. *)
Returned(rows) == [raised |-> "", rows |-> rows]
Raised(error)  == [raised |-> error, rows |-> <<>>]

(* int((s == mes).any()) over the months of one (customer_id, is_target) *)
presence_flag(df, k, mes) ==
  IF \E i \in Indices(df) : hist_cols(df[i]) = k /\ df[i].order_created_month = mes
  THEN 1 ELSE 0

(* variant: the count grouped by the two flags only *)
migration_key_flags_only(c) == <<c.flag_0, c.flag_1, 0>>

(* the columns the flagged customers are grouped by for the count *)
migration_key(c) == <<c.flag_0, c.flag_1, c.is_target>>

matriz_migracao(df, mes_0, mes_1) ==
  LET clientes_temp ==
        {[customer_id |-> k[1], is_target |-> k[2],
          flag_0 |-> presence_flag(df, k, mes_0),
          flag_1 |-> presence_flag(df, k, mes_1)] :
           k \in {hist_cols(df[i]) : i \in Indices(df)}}
      keys == SortedKeys({migration_key(c) : c \in clientes_temp})
      nunique(k) ==
        Cardinality({c.customer_id : c \in {x \in clientes_temp : migration_key(x) = k}})
  IN IF mes_0 = mes_1
     THEN (* both flags get the column name mes_<m>: the group keys carry *)
          (* that name twice and reset_index cannot insert it twice       *)
          Raised("ValueError")
     ELSE (* groupby leaves the rows sorted by (flag_0, flag_1, is_target), *)
          (* the order the stable sort_values([flag_0, flag_1]) keeps       *)
          Returned([n \in 1..Len(keys) |->
                      [flag_0 |-> keys[n][1], flag_1 |-> keys[n][2],
                       is_target |-> keys[n][3],
                       total_clientes |-> nunique(keys[n])]])

----------------------------------------------------------------------------
(* resumo_coorte_ativa *)

mes_fim(mes_coorte_inicio) ==
  IF mes_coorte_inicio = 12 THEN 1 ELSE mes_coorte_inicio + 1

(* the rows of the cohort's customers in the two months of interest *)
coorte_rows(df, mes_inicio) ==
  LET id_coorte_inicio ==
        {df[i].customer_id : i \in {j \in Indices(df) : df[j].order_created_month = mes_inicio}}
  IN {i \in Indices(df) :
        /\ df[i].customer_id \in id_coorte_inicio
        /\ df[i].order_created_month \in {mes_inicio, mes_fim(mes_inicio)}}

(* DataFrame.pivot refuses an (index, column) pair that occurs twice *)
pivot_has_duplicates(df, C) ==
  \E i \in C, j \in C : i # j /\ group_cols(df[i]) = group_cols(df[j])

(* the pivoted cell of index k and column mes, a missing one filled with 0 *)
pivot_cell(df, C, k, mes) ==
  LET hit == {i \in C : hist_cols(df[i]) = k /\ df[i].order_created_month = mes}
  IN IF hit = {} THEN 0 ELSE df[CHOOSE i \in hit : TRUE].num_pedidos_mes

resumo_coorte_ativa(df, mes_coorte_inicio) ==
  LET mes_coorte_fim == mes_fim(mes_coorte_inicio)
      C == coorte_rows(df, mes_coorte_inicio)
      pivot_columns == {df[i].order_created_month : i \in C}
      df_pivotado ==
        {[customer_id |-> k[1], is_target |-> k[2],
          pedidos_inicio |-> pivot_cell(df, C, k, mes_coorte_inicio),
          pedidos_fim    |-> pivot_cell(df, C, k, mes_coorte_fim)] :
           k \in {hist_cols(df[i]) : i \in C}}
      keys == SortedKeys({<<r.is_target, r.pedidos_fim, r.pedidos_inicio>> : r \in df_pivotado})
      count(k) ==
        Cardinality({r \in df_pivotado : <<r.is_target, r.pedidos_fim, r.pedidos_inicio>> = k})
  IN IF pivot_has_duplicates(df, C) THEN Raised("ValueError")
     ELSE IF ~ ({mes_coorte_inicio, mes_coorte_fim} \subseteq pivot_columns)
     THEN (* the pivot has no column for a month without rows, and the    *)
          (* final groupby names both month columns                       *)
          Raised("KeyError")
     ELSE Returned([n \in 1..Len(keys) |->
                      [is_target |-> keys[n][1],
                       pedidos_fim |-> keys[n][2],
                       pedidos_inicio |-> keys[n][3],
                       Total_Clientes |-> count(keys[n])]])

----------------------------------------------------------------------------
(* The caller's side: an input table, the pipeline run on it, then one    *)
(* cohort or migration call on the table the pipeline returned            *)

Row(c, t, a, g, act) ==
  [customer_id |-> c, order_created_at |-> t, order_total_amount |-> a,
   is_target |-> g, active |-> act]

(* The input tables are drawn from four families of rows: events of      *)
(* several customers over all times; events of several customers under    *)
(* both segments; events of one customer with varying amounts; events of  *)
(* one customer with varying segment and status.                          *)
OrderRows   == {Row(c, t, 10, 1, 1) : c \in Customers, t \in Times}
SegmentRows == {Row(c, t, 10, g, 1) : c \in Customers, t \in {December, January}, g \in Flags}
AmountRows  == {Row(1, t, a, 1, 1) : t \in {January, February}, a \in Amounts}
ActiveRows  == {Row(1, t, 10, g, act) : t \in {December, January}, g \in Flags, act \in Flags}

TablesOver(R) == UNION {[1..n -> R] : n \in 0..MaxRows}

InputTables ==
  TablesOver(OrderRows) \cup TablesOver(SegmentRows)
    \cup TablesOver(AmountRows) \cup TablesOver(ActiveRows)

NoCall == [op |-> "none", args |-> <<>>, raised |-> "", rows |-> <<>>]

Call(op, args, result) ==
  [op |-> op, args |-> args, raised |-> result.raised, rows |-> result.rows]

(* no call of execute_orders_etl under way *)
EtlIdle ==
  /\ text_stream = <<>>
  /\ customer_ids = {}
  /\ columns_to_drop = {}
  /\ max_sample = 0
  /\ etl_pc = "idle"
  /\ lines_read = 0
  /\ filtered_records = <<>>
  /\ raised_in_etl = FALSE
  /\ df_result = <<>>

Init ==
  /\ table \in InputTables
  /\ df_final = <<>>
  /\ df_percent = <<>>
  /\ processed = FALSE
  /\ last_call = NoCall
  /\ EtlIdle

ProcessOrders ==
  /\ ~ processed
  /\ LET out == process_orders_pandas(table)
     IN /\ df_final' = out.df_final
        /\ df_percent' = out.df_percent
        /\ table' = out.caller_df
  /\ processed' = TRUE
  /\ UNCHANGED last_call
  /\ UNCHANGED etl_vars

MatrizMigracao ==
  /\ processed
  /\ last_call = NoCall
  /\ \E mes_0 \in MigrationMonths, mes_1 \in MigrationMonths :
       last_call' = Call("matriz_migracao", <<mes_0, mes_1>>,
                         matriz_migracao(df_final, mes_0, mes_1))
  /\ UNCHANGED <<table, df_final, df_percent, processed>>
  /\ UNCHANGED etl_vars

ResumoCoorteAtiva ==
  /\ processed
  /\ last_call = NoCall
  /\ \E mes \in StartMonths :
       last_call' = Call("resumo_coorte_ativa", <<mes>>,
                         resumo_coorte_ativa(df_final, mes))
  /\ UNCHANGED <<table, df_final, df_percent, processed>>
  /\ UNCHANGED etl_vars

Next == ProcessOrders \/ MatrizMigracao \/ ResumoCoorteAtiva

Spec == Init /\ [][Next]_vars

----------------------------------------------------------------------------
(* execute_orders_etl *)

MaxLines == 3
MaxSample == 2

(* the JSON objects of the order file: a customer of interest with and    *)
(* without a column to drop, another customer, an object without          *)
(* customer_id                                                            *)
OrderObjects ==
  {[customer_id |-> 1, cpf |-> 7, order_id |-> 101],
   [customer_id |-> 1, order_id |-> 102],
   [customer_id |-> 2, cpf |-> 8, order_id |-> 103],
   [cpf |-> 9, order_id |-> 104]}

(* a line of the stream: the text of a JSON object, the text of a JSON    *)
(* value that is no object, text that is no JSON, or bytes the text       *)
(* stream cannot decompress or decode                                     *)
StreamLines ==
  {[kind |-> "object", value |-> o] : o \in OrderObjects}
    \cup {[kind |-> "scalar", value |-> <<>>],
          [kind |-> "malformed", value |-> <<>>],
          [kind |-> "undecodable", value |-> <<>>]}

CustomerIdSets == {{1}, {1, 2}}
DropSets == {{"cpf"}, {"cpf", "customer_id"}}

(* iterating the text stream raises on bytes it cannot turn into a line *)
read_raises(line) == line.kind = "undecodable"

(* json.loads(line): the parsed value, or JSONDecodeError *)
json_loads(line) ==
  IF line.kind = "malformed" THEN [error |-> "JSONDecodeError", value |-> <<>>]
  ELSE [error |-> "", value |-> line.value]

(* record.get("customer_id"): <<>> (None) for an absent key; only a JSON  *)
(* object has the method                                                  *)
is_dict(line) == line.kind = "object"
record_get(record, key) ==
  IF key \in DOMAIN record THEN <<record[key]>> ELSE <<>>

(* for col in columns_to_drop: record.pop(col, None) *)
pop_columns(record, cols) == [k \in (DOMAIN record) \ cols |-> record[k]]

(* customer_id in customer_ids *)
is_of_interest(record, ids) ==
  LET customer_id == record_get(record, "customer_id")
  IN customer_id # <<>> /\ customer_id[1] \in ids

(* variant: the loop stops only after one record more than the limit *)
sample_exceeded(records, limit) == Len(records) > limit

(* the stop condition at the head of the loop body *)
sample_reached(records, limit) == Len(records) >= limit

NoTable == [is_none |-> TRUE, columns |-> {}, rows |-> <<>>]

(* pd.DataFrame(filtered_records) with the ingestion_date column added:   *)
(* the columns are the keys of all records, a cell a record lacks is NaN  *)
(* (<<>>), a present one <<value>>                                        *)
DataFrameOf(records) ==
  LET keys == UNION {DOMAIN records[i] : i \in Indices(records)}
  IN [is_none |-> FALSE,
      columns |-> keys \cup {"ingestion_date"},
      rows    |-> [i \in Indices(records) |->
                     [c \in keys \cup {"ingestion_date"} |->
                        IF c = "ingestion_date" THEN <<"today">>
                        ELSE record_get(records[i], c)]]]

(* the arguments and the stream of one call, nothing read yet *)
EtlInit ==
  /\ table = <<>>
  /\ df_final = <<>>
  /\ df_percent = <<>>
  /\ processed = FALSE
  /\ last_call = NoCall
  /\ text_stream \in UNION {[1..n -> StreamLines] : n \in 0..MaxLines}
  /\ customer_ids \in CustomerIdSets
  /\ columns_to_drop \in DropSets
  /\ max_sample \in 1..MaxSample
  /\ etl_pc = "request"
  /\ lines_read = 0
  /\ filtered_records = <<>>
  /\ raised_in_etl = FALSE
  /\ df_result = NoTable

EtlInputs == <<text_stream, customer_ids, columns_to_drop, max_sample>>

(* except Exception: return None *)
EtlExcept ==
  /\ raised_in_etl' = TRUE
  /\ df_result' = NoTable
  /\ etl_pc' = "done"

(* requests.get and raise_for_status succeed, the stream is opened *)
EtlRequest ==
  /\ etl_pc = "request"
  /\ etl_pc' = "for"
  /\ UNCHANGED <<EtlInputs, lines_read, filtered_records, raised_in_etl, df_result>>
  /\ UNCHANGED core_vars

(* the request times out or answers with an error status *)
EtlRequestFails ==
  /\ etl_pc = "request"
  /\ EtlExcept
  /\ UNCHANGED <<EtlInputs, lines_read, filtered_records>>
  /\ UNCHANGED core_vars

(* the for statement takes the next line of the stream *)
EtlNextLine ==
  /\ etl_pc = "for"
  /\ lines_read < Len(text_stream)
  /\ ~ read_raises(text_stream[lines_read + 1])
  /\ lines_read' = lines_read + 1
  /\ etl_pc' = "body"
  /\ UNCHANGED <<EtlInputs, filtered_records, raised_in_etl, df_result>>
  /\ UNCHANGED core_vars

EtlReadFails ==
  /\ etl_pc = "for"
  /\ lines_read < Len(text_stream)
  /\ read_raises(text_stream[lines_read + 1])
  /\ EtlExcept
  /\ UNCHANGED <<EtlInputs, lines_read, filtered_records>>
  /\ UNCHANGED core_vars

EtlEndOfStream ==
  /\ etl_pc = "for"
  /\ lines_read = Len(text_stream)
  /\ etl_pc' = "after"
  /\ UNCHANGED <<EtlInputs, lines_read, filtered_records, raised_in_etl, df_result>>
  /\ UNCHANGED core_vars

(* if len(filtered_records) >= max_sample: break *)
EtlSampleReached ==
  /\ etl_pc = "body"
  /\ sample_reached(filtered_records, max_sample)
  /\ etl_pc' = "after"
  /\ UNCHANGED <<EtlInputs, lines_read, filtered_records, raised_in_etl, df_result>>
  /\ UNCHANGED core_vars

(* except json.JSONDecodeError: continue *)
EtlSkipMalformed ==
  /\ etl_pc = "body"
  /\ ~ sample_reached(filtered_records, max_sample)
  /\ json_loads(text_stream[lines_read]).error # ""
  /\ etl_pc' = "for"
  /\ UNCHANGED <<EtlInputs, lines_read, filtered_records, raised_in_etl, df_result>>
  /\ UNCHANGED core_vars

(* record.get on a parsed value that is no object raises AttributeError *)
EtlNotAnObject ==
  /\ etl_pc = "body"
  /\ ~ sample_reached(filtered_records, max_sample)
  /\ json_loads(text_stream[lines_read]).error = ""
  /\ ~ is_dict(text_stream[lines_read])
  /\ EtlExcept
  /\ UNCHANGED <<EtlInputs, lines_read, filtered_records>>
  /\ UNCHANGED core_vars

(* the record of a customer of interest is stripped and appended *)
EtlFilterRecord ==
  /\ etl_pc = "body"
  /\ ~ sample_reached(filtered_records, max_sample)
  /\ json_loads(text_stream[lines_read]).error = ""
  /\ is_dict(text_stream[lines_read])
  /\ LET record == json_loads(text_stream[lines_read]).value
     IN filtered_records' =
          IF is_of_interest(record, customer_ids)
          THEN Append(filtered_records, pop_columns(record, columns_to_drop))
          ELSE filtered_records
  /\ etl_pc' = "for"
  /\ UNCHANGED <<EtlInputs, lines_read, raised_in_etl, df_result>>
  /\ UNCHANGED core_vars

(* if not filtered_records: return None *)
EtlReturnNone ==
  /\ etl_pc = "after"
  /\ filtered_records = <<>>
  /\ df_result' = NoTable
  /\ etl_pc' = "done"
  /\ UNCHANGED <<EtlInputs, lines_read, filtered_records, raised_in_etl>>
  /\ UNCHANGED core_vars

EtlReturnTable ==
  /\ etl_pc = "after"
  /\ filtered_records # <<>>
  /\ df_result' = DataFrameOf(filtered_records)
  /\ etl_pc' = "done"
  /\ UNCHANGED <<EtlInputs, lines_read, filtered_records, raised_in_etl>>
  /\ UNCHANGED core_vars

EtlNext ==
  \/ EtlRequest \/ EtlRequestFails
  \/ EtlNextLine \/ EtlReadFails \/ EtlEndOfStream
  \/ EtlSampleReached \/ EtlSkipMalformed \/ EtlNotAnObject \/ EtlFilterRecord
  \/ EtlReturnNone \/ EtlReturnTable

EtlSpec == EtlInit /\ [][EtlNext]_vars

----------------------------------------------------------------------------
(* Vocabulary of the properties *)

InputColumns ==
  {"customer_id", "order_created_at", "order_total_amount", "is_target", "active"}

InputMonth(r) == dt_month(r.order_created_at)

(* the customers with at least one event in month m *)
CustomersIn(m) == {table[i].customer_id : i \in {j \in Indices(table) : InputMonth(table[j]) = m}}

AllCustomers == {table[i].customer_id : i \in Indices(table)}
AllSegments  == {<<table[i].customer_id, table[i].is_target>> : i \in Indices(table)}

(* the input events of customer c, of segment (c, g), in month m *)
EventsOf(c, g, m) ==
  {i \in Indices(table) :
     /\ table[i].customer_id = c
     /\ table[i].is_target = g
     /\ InputMonth(table[i]) = m}

TotalClientes(rows) == SumOver(Indices(rows), [n \in Indices(rows) |-> rows[n].Total_Clientes])
TotalMigracao(rows) == SumOver(Indices(rows), [n \in Indices(rows) |-> rows[n].total_clientes])

IsResumo == processed /\ last_call.op = "resumo_coorte_ativa"
IsMatriz == processed /\ last_call.op = "matriz_migracao"

----------------------------------------------------------------------------
(* C1: for every table returned by process_orders_pandas and every start  *)
(* month S in 1..12, resumo_coorte_ativa returns a summary (it does not   *)
(* raise) whose Total_Clientes sum to the number of distinct customers    *)
(* with at least one event in month S.                                    *)
C1_CohortTotalIsStartMonthCustomers ==
  IsResumo =>
    /\ last_call.raised = ""
    /\ TotalClientes(last_call.rows) = Cardinality(CustomersIn(last_call.args[1]))

(* C2, as stated: for every event table and every pair of months the     *)
(* total_clientes of matriz_migracao sum to the number of distinct        *)
(* customers of the table, customers with events under more than one      *)
(* is_target value included (stated here for two different months).       *)
C2_MatrixPartitionsCustomers ==
  (IsMatriz /\ last_call.args[1] # last_call.args[2]) =>
    /\ last_call.raised = ""
    /\ TotalMigracao(last_call.rows) = Cardinality(AllCustomers)

(* C2, amended: for two different months the call returns, each           *)
(* (customer_id, is_target) pair of the table is counted in exactly one   *)
(* row, so total_clientes sum to the number of distinct pairs, pairs with *)
(* no event in either month included; the row keys are distinct and the   *)
(* flags of a row are those of the pairs it counts.  For twice the same   *)
(* month the call raises.                                                 *)
C2_MatrixCountsCustomerSegments ==
  IsMatriz =>
    IF last_call.args[1] = last_call.args[2]
    THEN last_call.raised = "ValueError"
    ELSE LET rows == last_call.rows
             flag(s, m) == IF EventsOf(s[1], s[2], m) # {} THEN 1 ELSE 0
             cell(s) == {n \in Indices(rows) :
                           /\ rows[n].flag_0 = flag(s, last_call.args[1])
                           /\ rows[n].flag_1 = flag(s, last_call.args[2])
                           /\ rows[n].is_target = s[2]}
         IN /\ last_call.raised = ""
            /\ TotalMigracao(rows) = Cardinality(AllSegments)
            /\ \A s \in AllSegments : Cardinality(cell(s)) = 1
            /\ \A n \in Indices(rows) :
                 rows[n].total_clientes = Cardinality({s \in AllSegments : n \in cell(s)})

(* C2 witness: a returned matrix over a table where one customer has      *)
(* events under both is_target values and some customer has no event in   *)
(* either month.                                                          *)
C2_Witness ==
  /\ IsMatriz
  /\ last_call.raised = ""
  /\ Cardinality(AllSegments) > Cardinality(AllCustomers)
  /\ \E n \in Indices(last_call.rows) :
       last_call.rows[n].flag_0 = 0 /\ last_call.rows[n].flag_1 = 0
  /\ \E n \in Indices(last_call.rows) : last_call.rows[n].flag_0 = 1

(* C3: in resumo_coorte_ativa with start month S and end month E, every   *)
(* customer with an event in S and none in E is counted in a summary row  *)
(* whose end-month order count is 0, also when no customer of the cohort  *)
(* has any event in E.                                                    *)
C3_AbsentEndMonthCountsZero ==
  IsResumo =>
    LET S == last_call.args[1]
        E == IF S = 12 THEN 1 ELSE S + 1
    IN \A c \in CustomersIn(S) \ CustomersIn(E) :
         /\ last_call.raised = ""
         /\ \E n \in Indices(last_call.rows) :
              /\ last_call.rows[n].pedidos_fim = 0
              /\ last_call.rows[n].pedidos_inicio > 0
              /\ \E g \in Flags : EventsOf(c, g, S) # {} /\ last_call.rows[n].is_target = g

----------------------------------------------------------------------------
(* the rows of the returned event table that belong to customer c *)
RowsOfCustomer(c) == {i \in Indices(df_final) : df_final[i].customer_id = c}

(* the times of customer c's input events *)
TimesOf(c) == {table[i].order_created_at : i \in {j \in Indices(table) : table[j].customer_id = c}}

(* the latest time of customer c strictly before t: <<>> when none *)
PrecedingTime(c, t) ==
  LET earlier == {u \in TimesOf(c) : u < t}
  IN IF earlier = {} THEN <<>>
     ELSE <<CHOOSE u \in earlier : \A v \in earlier : v <= u>>

(* d is the whole-day span from prev to t *)
IsWholeDaySpan(d, prev, t) ==
  /\ d * TicksPerDay <= t - prev
  /\ t - prev < (d + 1) * TicksPerDay

PrevAndDiffAgree(r) ==
  IF r.prev_order_time = <<>> THEN r.diff_days = <<>>
  ELSE /\ r.diff_days # <<>>
       /\ IsWholeDaySpan(r.diff_days[1], r.prev_order_time[1], r.order_created_at)

(* C4: in the table returned by process_orders_pandas, whatever the order *)
(* of the input rows, the row of a customer's earliest event has          *)
(* prev_order_time and diff_days null, every other row has                *)
(* prev_order_time equal to order_created_at of the same customer's       *)
(* immediately preceding event in ascending time order, and diff_days is  *)
(* the whole-day span between the two.  Of the k events a customer has at *)
(* one time t, k - 1 are preceded by an event at t and one by the event   *)
(* at the customer's latest earlier time (by none when t is the earliest).*)
C4_PrevOrderIsPrecedingEventOfCustomer ==
  processed =>
    /\ \A i \in Indices(df_final) : PrevAndDiffAgree(df_final[i])
    /\ \A c \in Customers : \A t \in TimesOf(c) :
         LET at_t   == {i \in RowsOfCustomer(c) : df_final[i].order_created_at = t}
             first  == {i \in at_t : df_final[i].prev_order_time = PrecedingTime(c, t)}
             tied   == {i \in at_t : df_final[i].prev_order_time = <<t>>}
             k      == Cardinality({j \in Indices(table) :
                          table[j].customer_id = c /\ table[j].order_created_at = t})
         IN /\ Cardinality(at_t) = k
            /\ Cardinality(first) = 1
            /\ Cardinality(tied) = k - 1

(* C4 witness: the input is not in time order, and a returned row has a   *)
(* previous event a fraction of a day more than whole days before it,     *)
(* with an event of another customer in between.                          *)
C4_Witness ==
  /\ processed
  /\ \E a \in Indices(table), b \in Indices(table) :
       a < b /\ table[a].order_created_at > table[b].order_created_at
  /\ \E i \in Indices(df_final) :
       /\ df_final[i].prev_order_time # <<>>
       /\ (df_final[i].order_created_at - df_final[i].prev_order_time[1]) % TicksPerDay # 0
       /\ df_final[i].diff_days[1] > 0
       /\ \E j \in Indices(table) :
            /\ table[j].customer_id # df_final[i].customer_id
            /\ table[j].order_created_at > df_final[i].prev_order_time[1]
            /\ table[j].order_created_at < df_final[i].order_created_at

(* C5: every returned row carries num_pedidos_mes equal to the number of  *)
(* input events sharing its (customer_id, is_target, order_created_month),*)
(* total_amount_mes equal to the sum of order_total_amount over those     *)
(* events and ticket_medio equal to total_amount_mes / num_pedidos_mes;   *)
(* events with the same timestamp, hence the same unique_order_hash, each *)
(* count.                                                                 *)
C5_MonthlyMetricsCountEveryEvent ==
  processed =>
    \A i \in Indices(df_final) :
      LET r == df_final[i]
          G == EventsOf(r.customer_id, r.is_target, r.order_created_month)
      IN /\ r.order_created_month = InputMonth(r)
         /\ r.num_pedidos_mes = Cardinality(G)
         /\ r.total_amount_mes = SumOver(G, [j \in G |-> table[j].order_total_amount])
         /\ r.ticket_medio[2] > 0
         /\ r.ticket_medio[1] * r.num_pedidos_mes = r.total_amount_mes * r.ticket_medio[2]

(* C5 witness: one customer with amounts 10 and 20 at one timestamp of    *)
(* month 1 and 30 in month 2: count 2, total 30, ticket 15 for month 1    *)
(* and count 1, total 30, ticket 30 for month 2.                          *)
C5_Witness ==
  /\ processed
  /\ Len(df_final) = 3
  /\ \E i \in Indices(df_final), j \in Indices(df_final), k \in Indices(df_final) :
       /\ df_final[i].customer_id = df_final[j].customer_id
       /\ df_final[i].customer_id = df_final[k].customer_id
       /\ df_final[i].order_total_amount = 10
       /\ df_final[j].order_total_amount = 20
       /\ df_final[i].unique_order_hash = df_final[j].unique_order_hash
       /\ df_final[i].order_created_month = 1
       /\ df_final[i].num_pedidos_mes = 2
       /\ df_final[i].total_amount_mes = 30
       /\ df_final[i].ticket_medio = <<15, 1>>
       /\ df_final[k].order_total_amount = 30
       /\ df_final[k].order_created_month = 2
       /\ df_final[k].num_pedidos_mes = 1
       /\ df_final[k].total_amount_mes = 30
       /\ df_final[k].ticket_medio = <<30, 1>>
       /\ df_final[k].num_pedidos_hist = 3

(* the months in which the rows R of the returned table fall, and the     *)
(* num_pedidos_mes those rows carry for month m                           *)
MonthsOfRows(R) == {df_final[i].order_created_month : i \in R}
MonthlyCount(R, m) ==
  df_final[CHOOSE i \in R : df_final[i].order_created_month = m].num_pedidos_mes
SumOfMonthly(R) == SumOver(MonthsOfRows(R), [m \in MonthsOfRows(R) |-> MonthlyCount(R, m)])

(* C6, as stated: for every customer, num_pedidos_hist is the same on all *)
(* rows of the customer and equals the sum of num_pedidos_mes taken once  *)
(* per distinct order_created_month of the customer.                      *)
C6_HistIsSumOfMonthlyPerCustomer ==
  processed =>
    \A c \in Customers : \A i \in RowsOfCustomer(c) :
      /\ \A j \in RowsOfCustomer(c) : df_final[j].num_pedidos_hist = df_final[i].num_pedidos_hist
      /\ df_final[i].num_pedidos_hist = SumOfMonthly(RowsOfCustomer(c))

(* the rows of the returned event table of segment (customer_id, is_target) *)
RowsOfSegment(c, g) == {i \in RowsOfCustomer(c) : df_final[i].is_target = g}

(* C6, amended: for every (customer_id, is_target) pair, num_pedidos_hist *)
(* is the same on all rows of the pair, equals the number of input events *)
(* of the pair, and equals the sum of num_pedidos_mes taken once per      *)
(* distinct order_created_month of the pair.                              *)
C6_HistIsSumOfMonthlyPerSegment ==
  processed =>
    \A c \in Customers, g \in Flags : \A i \in RowsOfSegment(c, g) :
      /\ \A j \in RowsOfSegment(c, g) : df_final[j].num_pedidos_hist = df_final[i].num_pedidos_hist
      /\ df_final[i].num_pedidos_hist = SumOfMonthly(RowsOfSegment(c, g))
      /\ df_final[i].num_pedidos_hist =
           Cardinality({j \in Indices(table) : table[j].customer_id = c /\ table[j].is_target = g})

(* C6 witness: a customer with events under both is_target values, one   *)
(* of the two pairs spanning two months.                                  *)
C6_Witness ==
  /\ processed
  /\ \E c \in Customers :
       /\ RowsOfSegment(c, 0) # {}
       /\ Cardinality(MonthsOfRows(RowsOfSegment(c, 1))) = 2
       /\ \E i \in RowsOfSegment(c, 1) : df_final[i].num_pedidos_hist = 2

----------------------------------------------------------------------------
(* the rows of the distribution table of month m *)
RowsOfMonth(m) == {n \in Indices(df_percent) : df_percent[n].order_created_month = m}

SumOfCount(R)      == SumOver(R, [n \in R |-> df_percent[n].count])
SumOfPercentual(R) == SumOver(R, [n \in R |-> df_percent[n].percentual])

(* p hundredths is count / total * 100 rounded to 2 decimals *)
IsRoundedPercent(p, count, total) ==
  /\ 2 * (p * total - count * 10000) <= total
  /\ 2 * (count * 10000 - p * total) <= total

(* C7: in the distribution table, for every order_created_month,         *)
(* total_month equals the sum of count over the (is_target, active) rows  *)
(* of the month and is at least 1, percentual is count / total_month *    *)
(* 100 rounded to 2 decimals, and the percentual of the month's rows sum  *)
(* to 100.00 within 0.01 times the number of those rows (percentual is    *)
(* held in hundredths).  Each count is the number of input events of its  *)
(* (month, is_target, active) combination.                                *)
C7_PercentualSumsToHundred ==
  processed =>
    \A n \in Indices(df_percent) :
      LET r == df_percent[n]
          R == RowsOfMonth(r.order_created_month)
      IN /\ r.count = Cardinality({i \in Indices(table) :
                         /\ InputMonth(table[i]) = r.order_created_month
                         /\ table[i].is_target = r.is_target
                         /\ table[i].active = r.active})
         /\ r.total_month = SumOfCount(R)
         /\ r.total_month >= 1
         /\ IsRoundedPercent(r.percentual, r.count, r.total_month)
         /\ SumOfPercentual(R) - 10000 <= Cardinality(R)
         /\ 10000 - SumOfPercentual(R) <= Cardinality(R)

(* C7 witness: a month with three combinations of one event each, whose   *)
(* percentual (33.33 each) sum to 99.99.                                  *)
C7_Witness ==
  /\ processed
  /\ \E n \in Indices(df_percent) :
       /\ Cardinality(RowsOfMonth(df_percent[n].order_created_month)) = 3
       /\ df_percent[n].percentual = 3333
       /\ SumOfPercentual(RowsOfMonth(df_percent[n].order_created_month)) = 9999

(* the input columns of a returned row *)
InputPart(r) ==
  [customer_id |-> r.customer_id, order_created_at |-> r.order_created_at,
   order_total_amount |-> r.order_total_amount, is_target |-> r.is_target,
   active |-> r.active]

(* C8: the returned event table contains exactly the input events (same   *)
(* number of rows, none dropped or duplicated), ordered by customer_id    *)
(* descending and, within a customer, by order_created_at ascending, for  *)
(* any order of the input rows.                                           *)
C8_SameEventsSortedCustomerDescTimeAsc ==
  processed =>
    /\ Len(df_final) = Len(table)
    /\ \A i \in Indices(table) :
         Cardinality({j \in Indices(df_final) : InputPart(df_final[j]) = table[i]})
           = Cardinality({j \in Indices(table) : table[j] = table[i]})
    /\ \A i \in Indices(df_final) : \A j \in Indices(df_final) :
         i < j =>
           \/ df_final[i].customer_id > df_final[j].customer_id
           \/ /\ df_final[i].customer_id = df_final[j].customer_id
              /\ df_final[i].order_created_at <= df_final[j].order_created_at

(* C8 witness: an input of two customers given in ascending customer      *)
(* order with a customer's later event first, returned reordered.         *)
C8_Witness ==
  /\ processed
  /\ Len(table) = MaxRows
  /\ table[1].customer_id < table[Len(table)].customer_id
  /\ \E a \in Indices(table), b \in Indices(table) :
       /\ a < b
       /\ table[a].customer_id = table[b].customer_id
       /\ table[a].order_created_at > table[b].order_created_at
  /\ InputPart(df_final[1]) = table[Len(table)]

(* C9: given an event table with all columns and zero rows, each core     *)
(* operation finishes without an error and returns an empty table:        *)
(* process_orders_pandas an empty event table and an empty distribution   *)
(* table, matriz_migracao (of two different months) an empty matrix and   *)
(* resumo_coorte_ativa an empty cohort summary.                           *)
C9_EmptyInputGivesEmptyTables ==
  (processed /\ table = <<>>) =>
    /\ df_final = <<>>
    /\ df_percent = <<>>
    /\ (IsMatriz /\ last_call.args[1] # last_call.args[2]) =>
         (last_call.raised = "" /\ last_call.rows = <<>>)
    /\ IsResumo => (last_call.raised = "" /\ last_call.rows = <<>>)

(* C10: process_orders_pandas, matriz_migracao and resumo_coorte_ativa    *)
(* leave the table passed by the caller unchanged (same rows, same order, *)
(* same columns, same values), the derived columns existing only in the   *)
(* returned tables: no step changes the caller's input table, and no      *)
(* cohort or migration call changes the event table it is given.          *)
C10_CallerTablesUnchanged ==
  [][/\ table' = table
     /\ \A i \in Indices(table') : DOMAIN table'[i] = InputColumns
     /\ processed => (df_final' = df_final /\ df_percent' = df_percent)]_vars

(* C10 witness: after the pipeline and a call that returned rows, the     *)
(* returned event table carries the derived columns and the caller's      *)
(* non-empty table only the input columns.                                *)
C10_Witness ==
  /\ processed
  /\ last_call.op # "none"
  /\ last_call.rows # <<>>
  /\ table # <<>>
  /\ \A i \in Indices(table) : DOMAIN table[i] = InputColumns
  /\ \A i \in Indices(df_final) : "order_created_month" \in DOMAIN df_final[i]

----------------------------------------------------------------------------
(* the positions, in stream order, of the lines among the first n that    *)
(* parse as a JSON object whose customer_id is in customer_ids            *)
MatchingUpTo(n) ==
  LET wanted(i) ==
        /\ text_stream[i].kind = "object"
        /\ "customer_id" \in DOMAIN text_stream[i].value
        /\ text_stream[i].value.customer_id \in customer_ids
  IN SelectSeq([i \in 1..n |-> i], wanted)

Matching == MatchingUpTo(Len(text_stream))

Min(a, b) == IF a <= b THEN a ELSE b

(* record r holds the object of line p without the columns to drop *)
IsStrippedLine(r, p) ==
  LET o == text_stream[p].value
  IN /\ DOMAIN r = (DOMAIN o) \ columns_to_drop
     /\ \A c \in DOMAIN r : r[c] = o[c]

(* row i of the returned table holds the object of line p without the     *)
(* columns to drop: its cells are the object's remaining values, the      *)
(* cells of columns the object lacks are null                             *)
RowHoldsLine(i, p) ==
  LET o == text_stream[p].value
  IN \A c \in df_result.columns \ {"ingestion_date"} :
       df_result.rows[i][c] = IF c \in DOMAIN o THEN <<o[c]>> ELSE <<>>

(* the lines the loop body has dealt with: all the lines taken, but the   *)
(* one the body is at                                                     *)
LinesHandled == IF etl_pc = "body" THEN lines_read - 1 ELSE lines_read

(* C11: for execute_orders_etl over any stream of lines and any           *)
(* max_sample >= 1: the loop stops once max_sample records are collected  *)
(* (never more are collected, and it takes at most the one line after the *)
(* last collected one, on which it breaks); the records collected are the *)
(* lines handled so far that parse as a JSON object with customer_id in   *)
(* customer_ids, in stream order and without the columns of               *)
(* columns_to_drop, a line that does not parse being passed over; when    *)
(* the extraction raises or no line of the stream matches, the function   *)
(* returns None; otherwise it returns a table holding exactly the first   *)
(* min(max_sample, k) matching records, k the number of matching lines.   *)
C11_EtlReturnsFirstSampleOrNone ==
  (etl_pc # "idle") =>
    LET k == Len(Matching)
        handled == MatchingUpTo(LinesHandled)
        collected == Min(max_sample, Len(handled))
    IN /\ Len(filtered_records) <= max_sample
       /\ Len(filtered_records) = collected
       /\ \A i \in 1..Len(filtered_records) : IsStrippedLine(filtered_records[i], handled[i])
       /\ (k >= max_sample) => lines_read <= Matching[max_sample] + 1
       /\ (etl_pc = "done") =>
            IF raised_in_etl \/ k = 0
            THEN df_result.is_none
            ELSE /\ ~ df_result.is_none
                 /\ Len(df_result.rows) = Min(max_sample, k)
                 /\ df_result.columns \cap columns_to_drop = {}
                 /\ \A i \in 1..Len(df_result.rows) :
                      /\ RowHoldsLine(i, Matching[i])
                      /\ (DOMAIN text_stream[Matching[i]].value) \ columns_to_drop
                           \subseteq df_result.columns

(* C11 witness: a table of max_sample records is returned from a stream   *)
(* with more matching lines than that, a line that does not parse before  *)
(* the first of them, the collected object carrying a column to drop.     *)
C11_Witness ==
  /\ etl_pc = "done"
  /\ ~ raised_in_etl
  /\ ~ df_result.is_none
  /\ Len(df_result.rows) = max_sample
  /\ Len(Matching) > max_sample
  /\ text_stream[1].kind = "malformed"
  /\ "cpf" \in DOMAIN text_stream[Matching[1]].value
  /\ "cpf" \notin df_result.columns

====
